---- MODULE Spec2Model ----
(***************************************************************************)
(* Model of mb_enhanced_cover_art_uploads/seeding/atisket/dimensions.ts:   *)
(* the localStorage-backed image info cache (localStorageCache) and the    *)
(* retrying HEAD request of AtisketImage.loadFileInfo.                     *)
(*                                                                         *)
(* JavaScript objects are functions from the property names they own to    *)
(* the property values; a property that is absent is not in the DOMAIN.    *)
(***************************************************************************)
EXTENDS Integers, Sequences, FiniteSets, TLC

\* dimensions.ts:11
MAX_CACHED_IMAGES == 30
\* dimensions.ts:106, the retries option of pRetry
Retries == 5

\* Number of cache calls followed in one behaviour.
MaxOps == 2
\* The persisted store may start with up to MAX_CACHED_IMAGES + MaxOver
\* entries (localStorage is shared and is not written by this code alone).
MaxOver == 1
\* Execution contexts (tabs) that share the persisted item.
NumTabs == 2

VARIABLES
    ls,        \* the localStorage item CACHE_LOCALSTORAGE_KEY
    warnings,  \* number of LOGGER.warn calls made by the cache
    writes,    \* number of localStorage.setItem calls
    now,       \* last value returned by Date.now()
    calls,     \* history: one record per completed cache call
    tabs,      \* the putInfo/putDimensions/putFileInfo call of each context
    fstate,   \* where a loadFileInfo call is
    attempts,  \* number of gmxhr requests the call has started
    failures,  \* the errors of its failed attempts, in order
    trace,     \* its requests and warnings, in order
    raised,    \* the error it was rejected with
    resp,      \* the response pRetry resolved with
    result     \* the FileInfo it returned

cacheVars == <<ls, writes, now, calls, tabs>>
fetchVars == <<fstate, attempts, failures, trace, raised, resp, result>>
vars == <<ls, warnings, writes, now, calls, tabs,
          fstate, attempts, failures, trace, raised, resp, result>>

----------------------------------------------------------------------------
(* JavaScript values *)

\* The value `undefined`.
Undefined == [undefined |-> TRUE]
\* A defined value.
Some(v) == [val |-> v]

\* The empty object {}.
EmptyObject == [p \in {} |-> TRUE]

\* { ...a, ...b }: the properties of b win over those of a.
Spread(a, b) ==
    [p \in (DOMAIN a) \cup (DOMAIN b) |-> IF p \in DOMAIN b THEN b[p] ELSE a[p]]

\* { [p]: v }
Prop(p, v) == [q \in {p} |-> v]

\* delete o[p]
Delete(o, ps) == [q \in (DOMAIN o) \ ps |-> o[q]]

\* Object.keys(o).length
Size(o) == Cardinality(DOMAIN o)

\* o[p]: the property, or undefined when o does not own it.
Lookup(o, p) == IF p \in DOMAIN o THEN Some(o[p]) ELSE Undefined

\* The outcome of an evaluation that raised a TypeError.
TypeError == [threw |-> "TypeError"]

\* Variant: v.p without the optional chaining.
OptChain_unguarded(v, p) == IF v = Undefined THEN TypeError ELSE Lookup(v.val, p)

\* v?.p for v a property lookup result: undefined when v is undefined.
OptChain(v, p) == IF v = Undefined THEN Undefined ELSE Lookup(v.val, p)

\* { ...v } for v an optional value: spreading undefined gives {}.
SpreadOpt(v) == IF v = Undefined THEN EmptyObject ELSE v.val

----------------------------------------------------------------------------
(* The persisted item *)

\* localStorage.getItem returns null for a missing item, else the string.
\* A string is either the JSON text of a store or text that does not parse.
Missing == [kind |-> "missing", store |-> EmptyObject]
Malformed == [kind |-> "malformed", store |-> EmptyObject]
\* JSON.stringify(store)
JSONstringify(store) == [kind |-> "json", store |-> store]

\* localStorage.getItem(CACHE_LOCALSTORAGE_KEY) ?? '{}'
getItemOrEmpty(item) == IF item.kind = "missing" THEN JSONstringify(EmptyObject) ELSE item

\* safeParseJSON: the parsed value, or undefined when the text does not parse.
safeParseJSON(text) == IF text.kind = "json" THEN Some(text.store) ELSE Undefined

\* The storage context a cache method runs against.
Ctx(item, w, s) == [ls |-> item, warnings |-> w, writes |-> s]

\* putStore, dimensions.ts:41-43
putStore(c, store) ==
    [c EXCEPT !.ls = JSONstringify(store), !.writes = @ + 1]

\* Variant: a malformed item is reported and read as empty, but not reset.
getStore_noReset(c) ==
    LET store == safeParseJSON(getItemOrEmpty(c.ls)) IN
    IF store = Undefined
    THEN [c |-> [c EXCEPT !.warnings = @ + 1], ret |-> EmptyObject]
    ELSE [c |-> c, ret |-> store.val]

\* getStore, dimensions.ts:31-39.  Returns the context after the call and
\* the store returned.
getStore(c) ==
    LET store == safeParseJSON(getItemOrEmpty(c.ls)) IN
    IF store = Undefined
    THEN [c |-> putStore([c EXCEPT !.warnings = @ + 1], EmptyObject),
          ret |-> EmptyObject]
    ELSE [c |-> c, ret |-> store.val]

\* Variant: a read refreshes the addedDatetime of the entry it finds.
getInfo_touch(c, imageUrl) ==
    LET r == getStore(c) IN
    IF imageUrl \in DOMAIN r.ret
    THEN [c |-> putStore(r.c, [r.ret EXCEPT ![imageUrl].addedDatetime =
                                  1 + CHOOSE t \in {r.ret[k].addedDatetime : k \in DOMAIN r.ret} :
                                         \A k \in DOMAIN r.ret : r.ret[k].addedDatetime <= t]),
          ret |-> Lookup(r.ret, imageUrl)]
    ELSE [c |-> r.c, ret |-> Undefined]

\* getInfo, dimensions.ts:45-47
getInfo(c, imageUrl) ==
    LET r == getStore(c) IN [c |-> r.c, ret |-> Lookup(r.ret, imageUrl)]

\* getDimensions, dimensions.ts:70-72
getDimensions(c, imageUrl) ==
    LET r == getInfo(c, imageUrl) IN [c |-> r.c, ret |-> OptChain(r.ret, "dimensions")]

\* getFileInfo, dimensions.ts:74-76
getFileInfo(c, imageUrl) ==
    LET r == getInfo(c, imageUrl) IN [c |-> r.c, ret |-> OptChain(r.ret, "fileInfo")]

----------------------------------------------------------------------------
(* Eviction, dimensions.ts:51-59 *)

\* Entries that the descending sort may place at or after entry k.
NotNewer(store, k) ==
    {j \in DOMAIN store : store[j].addedDatetime <= store[k].addedDatetime}
\* Entries that the descending sort must place after entry k.
Older(store, k) ==
    {j \in DOMAIN store : store[j].addedDatetime < store[k].addedDatetime}

\* Variant: the comparator sorts ascending, so the slice holds the newest.
Slices_ascending(store) ==
    LET need == Size(store) - (MAX_CACHED_IMAGES - 1)
        newer(k) == {j \in DOMAIN store : store[j].addedDatetime > store[k].addedDatetime}
        notOlder(k) == {j \in DOMAIN store : store[j].addedDatetime >= store[k].addedDatetime}
        sure == {k \in DOMAIN store : Cardinality(notOlder(k)) <= need}
        tied == {k \in DOMAIN store :
                    /\ Cardinality(newer(k)) < need
                    /\ Cardinality(notOlder(k)) > need}
    IN  {sure \cup T : T \in {X \in SUBSET tied : Cardinality(X) = need - Cardinality(sure)}}

\* entries.slice(MAX_CACHED_IMAGES - 1) of the entries sorted by descending
\* addedDatetime: the keys it can hold.  The order the sort gives to entries
\* of equal addedDatetime depends on the engine, so ties give several slices.
Slices(store) ==
    LET need == Size(store) - (MAX_CACHED_IMAGES - 1)
        sure == {k \in DOMAIN store : Cardinality(NotNewer(store, k)) <= need}
        tied == {k \in DOMAIN store :
                    /\ Cardinality(Older(store, k)) < need
                    /\ Cardinality(NotNewer(store, k)) > need}
    IN  {sure \cup T : T \in {X \in SUBSET tied : Cardinality(X) = need - Cardinality(sure)}}

\* Variant: evicts only above the capacity (> for >=).
Evicted_strict(prevStore) ==
    IF Size(prevStore) > MAX_CACHED_IMAGES
    THEN {Delete(prevStore, E) : E \in Slices(prevStore)}
    ELSE {prevStore}

\* The stores prevStore can be after the eviction block.
Evicted(prevStore) ==
    IF Size(prevStore) >= MAX_CACHED_IMAGES
    THEN {Delete(prevStore, E) : E \in Slices(prevStore)}
    ELSE {prevStore}

\* Variant: the new entry is spread before prevStore, so a kept entry wins.
putInfo_prevWins(c, imageUrl, cacheEntry, t) ==
    LET r == getStore(c) IN
    {putStore(r.c, Spread(Prop(imageUrl,
                  Spread(cacheEntry, Prop("addedDatetime", t))), kept))
        : kept \in Evicted(r.ret)}

\* Variant: the entry is merged into the entry prevStore has for the key.
putInfo_merging(c, imageUrl, cacheEntry, t) ==
    LET r == getStore(c) IN
    {putStore(r.c, Spread(kept, Prop(imageUrl,
                  Spread(Spread(SpreadOpt(Lookup(r.ret, imageUrl)), cacheEntry),
                         Prop("addedDatetime", t)))))
        : kept \in Evicted(r.ret)}

\* Variant: addedDatetime is set before cacheEntry is spread, so a timestamp
\* that cacheEntry carries wins.
putInfo_stampFirst(c, imageUrl, cacheEntry, t) ==
    LET r == getStore(c) IN
    {putStore(r.c, Spread(kept, Prop(imageUrl,
                  Spread(Prop("addedDatetime", t), cacheEntry))))
        : kept \in Evicted(r.ret)}

\* putInfo, dimensions.ts:49-68, with Date.now() = t.  The set of contexts
\* the call can end in.
putInfo(c, imageUrl, cacheEntry, t) ==
    LET r == getStore(c) IN
    {putStore(r.c, Spread(kept, Prop(imageUrl,
                  Spread(cacheEntry, Prop("addedDatetime", t)))))
        : kept \in Evicted(r.ret)}

\* putDimensions, dimensions.ts:78-85
putDimensions(c, imageUrl, dimensions, t) ==
    LET prevEntry == getInfo(c, imageUrl) IN
    putInfo(prevEntry.c, imageUrl,
            Spread(SpreadOpt(prevEntry.ret), Prop("dimensions", dimensions)), t)

\* Variant: the previous entry is not spread into the new one.
putFileInfo_noSpread(c, imageUrl, fileInfo, t) ==
    putInfo(getInfo(c, imageUrl).c, imageUrl, Prop("fileInfo", fileInfo), t)

\* putFileInfo, dimensions.ts:87-94
putFileInfo(c, imageUrl, fileInfo, t) ==
    LET prevEntry == getInfo(c, imageUrl) IN
    putInfo(prevEntry.c, imageUrl,
            Spread(SpreadOpt(prevEntry.ret), Prop("fileInfo", fileInfo)), t)

----------------------------------------------------------------------------
(* Inputs *)

\* The methods of localStorageCache that write an entry, and those that read.
WriteOps == {"putInfo", "putDimensions", "putFileInfo"}
ReadOps == {"getStore", "getInfo", "getDimensions", "getFileInfo"}

\* Image URLs: enough for a store of MAX_CACHED_IMAGES + MaxOver entries and
\* one URL that no initial store holds.
NumKeys == MAX_CACHED_IMAGES + MaxOver + 1
Keys == 1..NumKeys
\* URLs the calls are made with: the MAX_CACHED_IMAGES-th (the newest, the
\* oldest or one of the two oldest entries of a full initial store, absent
\* from a smaller one) and one outside every initial store.
OpKeys == {MAX_CACHED_IMAGES, NumKeys}

\* Dimensions and FileInfo values written by the calls ("d1", "f1") and
\* found in the initial stores ("d0", "f0").
NewDimensions == "d1"
NewFileInfo == "f1"

\* Entries passed to putInfo: Omit<CacheEntry, 'addedDatetime'>.
Payloads ==
    {EmptyObject,
     Prop("dimensions", NewDimensions),
     Prop("fileInfo", NewFileInfo),
     Spread(Prop("dimensions", NewDimensions), Prop("fileInfo", NewFileInfo))}

\* Initial stores: n entries for URLs 1..n, written in ascending order of
\* URL ("asc"), in descending order ("desc"), or in descending order two in
\* the same millisecond ("pairs").
InitStamp(layout, n, i) ==
    CASE layout = "asc" -> i
      [] layout = "desc" -> n + 1 - i
      [] layout = "pairs" -> (n + 2 - i) \div 2
InitPayload(i) ==
    CASE i % 3 = 0 -> Spread(Prop("dimensions", "d0"), Prop("fileInfo", "f0"))
      [] i % 3 = 1 -> Prop("dimensions", "d0")
      [] i % 3 = 2 -> Prop("fileInfo", "f0")
InitStore(layout, n) ==
    [i \in 1..n |-> Spread(InitPayload(i), Prop("addedDatetime", InitStamp(layout, n, i)))]
InitSizes == {0} \cup ((MAX_CACHED_IMAGES - 1)..(MAX_CACHED_IMAGES + MaxOver))
InitItems ==
    {Missing, Malformed}
        \cup {JSONstringify(InitStore(layout, n)) :
                layout \in {"asc", "desc", "pairs"}, n \in InitSizes}

\* Largest addedDatetime of a store, 0 for an empty one.
Newest(store) ==
    IF DOMAIN store = {} THEN 0
    ELSE CHOOSE t \in {store[k].addedDatetime : k \in DOMAIN store} :
            \A k \in DOMAIN store : store[k].addedDatetime <= t

----------------------------------------------------------------------------
(* The cache as a state machine: one action per public method *)

\* No loadFileInfo call has been made.
FetchIdle ==
    /\ fstate = "Idle"
    /\ attempts = 0
    /\ failures = <<>>
    /\ trace = <<>>
    /\ raised = Undefined
    /\ resp = Undefined
    /\ result = Undefined

Init ==
    /\ ls \in InitItems
    /\ warnings = 0
    /\ writes = 0
    /\ now = Newest(ls.store)
    /\ calls = <<>>
    /\ tabs = <<>>
    /\ FetchIdle

Here == Ctx(ls, warnings, writes)

\* Record a completed call and install the context it ended in.
Done(op, key, arg, t, c, ret) ==
    /\ now' = t
    /\ ls' = c.ls
    /\ warnings' = c.warnings
    /\ writes' = c.writes
    /\ calls' = Append(calls, [op |-> op, key |-> key, arg |-> arg, t |-> t,
                               pre |-> Here, ret |-> ret])
    /\ UNCHANGED <<tabs, fetchVars>>

CanCall == Len(calls) < MaxOps

GetStore ==
    /\ CanCall
    /\ LET r == getStore(Here) IN Done("getStore", 0, Undefined, now, r.c, Some(r.ret))

GetInfo ==
    /\ CanCall
    /\ \E k \in OpKeys :
        LET r == getInfo(Here, k) IN Done("getInfo", k, Undefined, now, r.c, r.ret)

GetDimensions ==
    /\ CanCall
    /\ \E k \in OpKeys :
        LET r == getDimensions(Here, k) IN Done("getDimensions", k, Undefined, now, r.c, r.ret)

GetFileInfo ==
    /\ CanCall
    /\ \E k \in OpKeys :
        LET r == getFileInfo(Here, k) IN Done("getFileInfo", k, Undefined, now, r.c, r.ret)

\* Date.now() does not go back and may return the same millisecond twice.
Clock == now..(now + 1)

PutInfo ==
    /\ CanCall
    /\ \E k \in OpKeys, e \in Payloads, t \in Clock :
        \E c \in putInfo(Here, k, e, t) : Done("putInfo", k, Some(e), t, c, Undefined)

PutDimensions ==
    /\ CanCall
    /\ \E k \in OpKeys, t \in Clock :
        \E c \in putDimensions(Here, k, NewDimensions, t) :
            Done("putDimensions", k, Some(NewDimensions), t, c, Undefined)

PutFileInfo ==
    /\ CanCall
    /\ \E k \in OpKeys, t \in Clock :
        \E c \in putFileInfo(Here, k, NewFileInfo, t) :
            Done("putFileInfo", k, Some(NewFileInfo), t, c, Undefined)

Next ==
    \/ GetStore
    \/ GetInfo
    \/ GetDimensions
    \/ GetFileInfo
    \/ PutInfo
    \/ PutDimensions
    \/ PutFileInfo

Spec == Init /\ [][Next]_vars

----------------------------------------------------------------------------
(* Several execution contexts on one persisted item.  Each context runs its
   own synchronous code, but localStorage.getItem and localStorage.setItem
   of different contexts interleave: a call is a sequence of storage steps. *)

Tabs == 1..NumTabs
\* URLs the contexts write: one that full initial stores hold, one they lack.
RaceKeys == {1, NumKeys}
\* Initial stores: empty, one below capacity, at capacity.
RaceSizes == {0, MAX_CACHED_IMAGES - 1, MAX_CACHED_IMAGES}

\* A context that has not called yet.  pc is the storage step it is about
\* to make, cacheEntry and prevStore are the locals of the call, readAt,
\* snapAt and wrote the number of setItem calls made when it read the
\* previous entry, read the store and had written the store.
IdleTab ==
    [pc |-> "idle", op |-> "none", key |-> 0, cacheEntry |-> EmptyObject,
     prevStore |-> EmptyObject, readAt |-> 0, snapAt |-> 0, wrote |-> 0]

RaceInit ==
    /\ ls \in {JSONstringify(InitStore("asc", n)) : n \in RaceSizes}
    /\ warnings = 0
    /\ writes = 0
    /\ now = Newest(ls.store)
    /\ calls = <<>>
    /\ tabs = [i \in Tabs |-> IdleTab]
    /\ FetchIdle

\* Context i calls putInfo, putDimensions or putFileInfo.
Call(i) ==
    /\ tabs[i].pc = "idle"
    /\ \E op \in WriteOps, k \in RaceKeys :
        tabs' = [tabs EXCEPT ![i] =
                    [@ EXCEPT !.op = op, !.key = k,
                              !.cacheEntry = Prop("dimensions", NewDimensions),
                              !.pc = IF op = "putInfo" THEN "getStore" ELSE "getInfo"]]
    /\ UNCHANGED <<ls, warnings, writes, now, calls, fetchVars>>

\* The field that putDimensions or putFileInfo sets.
FieldOf(op) ==
    IF op = "putDimensions"
    THEN Prop("dimensions", NewDimensions)
    ELSE Prop("fileInfo", NewFileInfo)

\* Variant: the previous entry is not spread into the new one.
ReadEntry_noSpread(i) ==
    /\ tabs[i].pc = "getInfo"
    /\ LET prevEntry == getInfo(Here, tabs[i].key) IN
       /\ ls' = prevEntry.c.ls
       /\ warnings' = prevEntry.c.warnings
       /\ writes' = prevEntry.c.writes
       /\ tabs' = [tabs EXCEPT ![i] =
                    [@ EXCEPT !.cacheEntry = FieldOf(tabs[i].op),
                              !.readAt = prevEntry.c.writes,
                              !.pc = "getStore"]]
    /\ UNCHANGED <<now, calls, fetchVars>>

\* putDimensions and putFileInfo read the previous entry and build the new
\* one, dimensions.ts:79-83 and 88-92.
ReadEntry(i) ==
    /\ tabs[i].pc = "getInfo"
    /\ LET prevEntry == getInfo(Here, tabs[i].key) IN
       /\ ls' = prevEntry.c.ls
       /\ warnings' = prevEntry.c.warnings
       /\ writes' = prevEntry.c.writes
       /\ tabs' = [tabs EXCEPT ![i] =
                    [@ EXCEPT !.cacheEntry = Spread(SpreadOpt(prevEntry.ret),
                                                    FieldOf(tabs[i].op)),
                              !.readAt = prevEntry.c.writes,
                              !.pc = "getStore"]]
    /\ UNCHANGED <<now, calls, fetchVars>>

\* putInfo reads the store, dimensions.ts:50.
ReadStore(i) ==
    /\ tabs[i].pc = "getStore"
    /\ LET r == getStore(Here) IN
       /\ ls' = r.c.ls
       /\ warnings' = r.c.warnings
       /\ writes' = r.c.writes
       /\ tabs' = [tabs EXCEPT ![i] =
                    [@ EXCEPT !.prevStore = r.ret, !.snapAt = r.c.writes,
                              !.pc = "putStore"]]
    /\ UNCHANGED <<now, calls, fetchVars>>

\* putStore of one of the stores kept with the new entry added,
\* dimensions.ts:61-67.
WriteKept(i, keptStores) ==
    /\ tabs[i].pc = "putStore"
    /\ \E t \in Clock, kept \in keptStores :
        LET c == putStore(Here, Spread(kept, Prop(tabs[i].key,
                      Spread(tabs[i].cacheEntry, Prop("addedDatetime", t)))))
        IN  /\ now' = t
            /\ ls' = c.ls
            /\ writes' = c.writes
            /\ tabs' = [tabs EXCEPT ![i] = [@ EXCEPT !.wrote = c.writes, !.pc = "returned"]]
    /\ UNCHANGED <<warnings, calls, fetchVars>>

\* Variant: the store is read again right before it is written.
WriteStore_rereads(i) == WriteKept(i, Evicted(ls.store))
\* Variant: what is kept of the store that was read is merged into the
\* store as it is now, instead of replacing it.
WriteStore_mergesCurrent(i) ==
    WriteKept(i, {Spread(ls.store, kept) : kept \in Evicted(tabs[i].prevStore)})
\* putInfo evicts from the store it read and writes the result,
\* dimensions.ts:51-67.
WriteStore(i) == WriteKept(i, Evicted(tabs[i].prevStore))

RaceNext ==
    \E i \in Tabs :
        \/ Call(i)
        \/ ReadEntry(i)
        \/ ReadStore(i)
        \/ WriteStore(i)

SpecRace == RaceInit /\ [][RaceNext]_vars

----------------------------------------------------------------------------
(* Strings, for the header parsing of loadFileInfo, dimensions.ts:117-123 *)

\* The character at position i of a string.
CharAt(s, i) == SubSeq(s, i, i)

Digits == <<"0", "1", "2", "3", "4", "5", "6", "7", "8", "9">>
LowerCase == "abcdefghijklmnopqrstuvwxyz"
UpperCase == "ABCDEFGHIJKLMNOPQRSTUVWXYZ"

IsDigit(c) == \E d \in 1..Len(Digits) : Digits[d] = c
DigitValue(c) == (CHOOSE d \in 1..Len(Digits) : Digits[d] = c) - 1
IsLower(c) == \E i \in 1..Len(LowerCase) : CharAt(LowerCase, i) = c
IsUpper(c) == \E i \in 1..Len(UpperCase) : CharAt(UpperCase, i) = c
\* \w
IsWord(c) == IsDigit(c) \/ IsLower(c) \/ IsUpper(c) \/ c = "_"

ToLowerChar(c) ==
    IF IsUpper(c)
    THEN CharAt(LowerCase, CHOOSE i \in 1..Len(UpperCase) : CharAt(UpperCase, i) = c)
    ELSE c
ToUpperChar(c) ==
    IF IsLower(c)
    THEN CharAt(UpperCase, CHOOSE i \in 1..Len(LowerCase) : CharAt(LowerCase, i) = c)
    ELSE c

\* String.prototype.toUpperCase
RECURSIVE toUpperCase(_)
toUpperCase(s) ==
    IF s = "" THEN "" ELSE ToUpperChar(CharAt(s, 1)) \o toUpperCase(SubSeq(s, 2, Len(s)))

\* parseInt of a string of decimal digits
RECURSIVE parseInt(_)
parseInt(s) ==
    IF s = "" THEN 0
    ELSE 10 * parseInt(SubSeq(s, 1, Len(s) - 1)) + DigitValue(CharAt(s, Len(s)))

\* The literal lit (in lower case) is at position i of s, whatever the case
\* of s (the i flag).
LiteralAt(s, i, lit) ==
    /\ i + Len(lit) - 1 <= Len(s)
    /\ \A j \in 1..Len(lit) : ToLowerChar(CharAt(s, i + j - 1)) = CharAt(lit, j)

\* Last position of the longest run of digits, or of word characters, that
\* starts at position i; i - 1 when there is none.
RECURSIVE DigitsEnd(_, _)
DigitsEnd(s, i) ==
    IF i <= Len(s) /\ IsDigit(CharAt(s, i)) THEN DigitsEnd(s, i + 1) ELSE i - 1
RECURSIVE WordEnd(_, _)
WordEnd(s, i) ==
    IF i <= Len(s) /\ IsWord(CharAt(s, i)) THEN WordEnd(s, i + 1) ELSE i - 1

\* Variant: without the i flag.
matchContentLength_caseSensitive(s) ==
    LET lit == "content-length: "
        hits == {i \in 1..Len(s) :
                    /\ i + Len(lit) - 1 <= Len(s)
                    /\ SubSeq(s, i, i + Len(lit) - 1) = lit
                    /\ DigitsEnd(s, i + Len(lit)) >= i + Len(lit)}
    IN  IF hits = {} THEN Undefined
        ELSE LET i == CHOOSE h \in hits : \A g \in hits : h <= g
             IN  Some(SubSeq(s, i + Len(lit), DigitsEnd(s, i + Len(lit))))

\* s.match(/content-length: (\d+)/i)?.[1]
matchContentLength(s) ==
    LET lit == "content-length: "
        hits == {i \in 1..Len(s) :
                    /\ LiteralAt(s, i, lit)
                    /\ DigitsEnd(s, i + Len(lit)) >= i + Len(lit)}
    IN  IF hits = {} THEN Undefined
        ELSE LET i == CHOOSE h \in hits : \A g \in hits : h <= g
             IN  Some(SubSeq(s, i + Len(lit), DigitsEnd(s, i + Len(lit))))

\* s.match(/content-type: \w+\/(\w+)/i)?.[1]
matchContentType(s) ==
    LET lit == "content-type: "
        slash(i) == WordEnd(s, i + Len(lit)) + 1
        hits == {i \in 1..Len(s) :
                    /\ LiteralAt(s, i, lit)
                    /\ WordEnd(s, i + Len(lit)) >= i + Len(lit)
                    /\ slash(i) <= Len(s)
                    /\ CharAt(s, slash(i)) = "/"
                    /\ WordEnd(s, slash(i) + 1) >= slash(i) + 1}
    IN  IF hits = {} THEN Undefined
        ELSE LET i == CHOOSE h \in hits : \A g \in hits : h <= g
             IN  Some(SubSeq(s, slash(i) + 1, WordEnd(s, slash(i) + 1)))

\* The FileInfo loadFileInfo builds from a response, dimensions.ts:117-123.
\* An empty capture cannot happen (\d+), so `fileSize ?` tests for a match.
FileInfoOf(response) ==
    LET fileSize == matchContentLength(response.responseHeaders)
        fileType == matchContentType(response.responseHeaders)
    IN  [fileType |-> IF fileType = Undefined THEN Undefined
                      ELSE Some(toUpperCase(fileType.val)),
         size |-> IF fileSize = Undefined THEN Undefined
                  ELSE Some(parseInt(fileSize.val))]

----------------------------------------------------------------------------
(* The request and its retries, dimensions.ts:102-115 *)

NetworkError == [type |-> "NetworkError"]
HTTPResponseError(status) == [type |-> "HTTPResponseError", statusCode |-> status]

\* Response headers of the answers that carry a FileInfo.
HeaderSamples ==
    {"content-length: 12345\r\ncontent-type: image/png\r\n",
     "Content-Length: 7\r\nContent-Type: image/jpeg\r\n",
     "content-type: image/png\r\n",
     "content-length: 12345\r\n",
     "content-type: image/svg+xml\r\ncontent-length: 300\r\n",
     "x-goog-stored-content-length: 7\r\ncontent-length: 12345\r\n",
     ""}

\* What a HEAD request can end in: no response at all, or a response.
Outcomes ==
    {[kind |-> "error"]}
        \cup {[kind |-> "response", status |-> st, responseHeaders |-> h] :
                st \in {200, 304}, h \in HeaderSamples}
        \cup {[kind |-> "response", status |-> st, responseHeaders |-> ""] :
                st \in {400, 404, 429, 499, 500, 503}}

\* gmxhr: rejects when there is no response, and with a HTTPResponseError
\* for a status of 400 and above ("Anything below 400 doesn't throw a
\* HTTPResponseError", dimensions.ts:108); resolves with the response else.
gmxhr(outcome) ==
    IF outcome.kind = "error" THEN [ok |-> FALSE, err |-> NetworkError]
    ELSE IF outcome.status >= 400
         THEN [ok |-> FALSE, err |-> HTTPResponseError(outcome.status)]
         ELSE [ok |-> TRUE, resp |-> outcome]

\* Variant: never rethrows, every failure is retried.
onFailedAttempt_neverThrows(err) == FALSE

\* Variant: without the exemption of 429.
onFailedAttempt_no429(err) ==
    /\ err.type = "HTTPResponseError"
    /\ err.statusCode < 500

\* onFailedAttempt, dimensions.ts:107-114: TRUE when it rethrows err, FALSE
\* when it logs the warning and returns.
onFailedAttempt(err) ==
    /\ err.type = "HTTPResponseError"
    /\ err.statusCode < 500
    /\ err.statusCode # 429

\* Variant: rejects with the error of the first attempt.
mainError_first(errors) == {errors[1]}

\* The error pRetry rejects with once the retries are used up.  Releases of
\* p-retry built on the `retry` package reject with its mainError(), the
\* error whose message occurred most often (the later one on a tie); others
\* reject with the error of the last attempt.
mainError(errors) ==
    LET count(e) == Cardinality({i \in 1..Len(errors) : errors[i] = e})
        most == {i \in 1..Len(errors) :
                    \A j \in 1..Len(errors) : count(errors[j]) <= count(errors[i])}
    IN  {errors[Len(errors)],
         errors[CHOOSE i \in most : \A j \in most : j <= i]}

LoadIdle ==
    /\ ls = Missing
    /\ warnings = 0
    /\ writes = 0
    /\ now = 0
    /\ calls = <<>>
    /\ tabs = <<>>
    /\ FetchIdle

\* loadFileInfo is called: pRetry makes the first request.
StartLoad ==
    /\ fstate = "Idle"
    /\ fstate' = "Attempting"
    /\ attempts' = 1
    /\ trace' = Append(trace, "request")
    /\ UNCHANGED <<failures, raised, resp, result, warnings, cacheVars>>

\* The request resolves: pRetry resolves and loadFileInfo returns.
AttemptResolves ==
    /\ fstate = "Attempting"
    /\ \E o \in Outcomes :
        /\ gmxhr(o).ok
        /\ resp' = Some(gmxhr(o).resp)
        /\ result' = Some(FileInfoOf(gmxhr(o).resp))
    /\ fstate' = "Success"
    /\ UNCHANGED <<attempts, failures, trace, raised, warnings, cacheVars>>

\* Variant: one retry too many (<= for <).
AttemptRejects_oneMore ==
    /\ fstate = "Attempting"
    /\ \E o \in Outcomes :
        /\ ~gmxhr(o).ok
        /\ LET err == gmxhr(o).err IN
           /\ failures' = Append(failures, err)
           /\ IF onFailedAttempt(err)
              THEN /\ fstate' = "FatalError"
                   /\ raised' = Some(err)
                   /\ UNCHANGED <<trace, warnings>>
              ELSE /\ warnings' = warnings + 1
                   /\ trace' = Append(trace, "warn")
                   /\ IF attempts <= Retries + 1
                      THEN /\ fstate' = "RetryableError"
                           /\ UNCHANGED raised
                      ELSE /\ fstate' = "RetriesExhausted"
                           /\ \E e \in mainError(failures') : raised' = Some(e)
    /\ UNCHANGED <<attempts, resp, result, cacheVars>>

\* Variant: the warning is not logged.
AttemptRejects_noWarn ==
    /\ fstate = "Attempting"
    /\ \E o \in Outcomes :
        /\ ~gmxhr(o).ok
        /\ LET err == gmxhr(o).err IN
           /\ failures' = Append(failures, err)
           /\ IF onFailedAttempt(err)
              THEN /\ fstate' = "FatalError"
                   /\ raised' = Some(err)
                   /\ UNCHANGED <<trace, warnings>>
              ELSE /\ UNCHANGED <<trace, warnings>>
                   /\ IF attempts < Retries + 1
                      THEN /\ fstate' = "RetryableError"
                           /\ UNCHANGED raised
                      ELSE /\ fstate' = "RetriesExhausted"
                           /\ \E e \in mainError(failures') : raised' = Some(e)
    /\ UNCHANGED <<attempts, resp, result, cacheVars>>

\* The request rejects: pRetry calls onFailedAttempt; when that throws,
\* pRetry rejects with what it threw; otherwise pRetry retries if fewer than
\* Retries retries were made, and rejects if not.
AttemptRejects ==
    /\ fstate = "Attempting"
    /\ \E o \in Outcomes :
        /\ ~gmxhr(o).ok
        /\ LET err == gmxhr(o).err IN
           /\ failures' = Append(failures, err)
           /\ IF onFailedAttempt(err)
              THEN /\ fstate' = "FatalError"
                   /\ raised' = Some(err)
                   /\ UNCHANGED <<trace, warnings>>
              ELSE /\ warnings' = warnings + 1
                   /\ trace' = Append(trace, "warn")
                   /\ IF attempts < Retries + 1
                      THEN /\ fstate' = "RetryableError"
                           /\ UNCHANGED raised
                      ELSE /\ fstate' = "RetriesExhausted"
                           /\ \E e \in mainError(failures') : raised' = Some(e)
    /\ UNCHANGED <<attempts, resp, result, cacheVars>>

\* Variant: waits for a state the call is never in, so no retry is made.
Retry_wrongState ==
    /\ fstate = "Retrying"
    /\ fstate' = "Attempting"
    /\ attempts' = attempts + 1
    /\ trace' = Append(trace, "request")
    /\ UNCHANGED <<failures, raised, resp, result, warnings, cacheVars>>

\* The backoff delay is over: pRetry makes the next request.
Retry ==
    /\ fstate = "RetryableError"
    /\ fstate' = "Attempting"
    /\ attempts' = attempts + 1
    /\ trace' = Append(trace, "request")
    /\ UNCHANGED <<failures, raised, resp, result, warnings, cacheVars>>

LoadNext ==
    \/ StartLoad
    \/ AttemptResolves
    \/ AttemptRejects
    \/ Retry

SpecLoad == LoadIdle /\ [][LoadNext]_vars

\* The same, where every request made ends (it resolves or rejects) and the
\* timer pRetry sets for the next attempt fires.
SpecLoadFair ==
    /\ LoadIdle
    /\ [][LoadNext]_vars
    /\ WF_vars(AttemptResolves \/ AttemptRejects)
    /\ WF_vars(Retry)

----------------------------------------------------------------------------
(* Reading the history *)

Called == Len(calls) > 0
Last == calls[Len(calls)]
\* The store a call found: a missing or malformed item holds no entry.
Before(call) == call.pre.ls.store
\* The storage context call number i ended in.
After(i) == IF i = Len(calls) THEN Here ELSE calls[i + 1].pre

PayloadFields == {"dimensions", "fileInfo"}

\* No two entries of the store have the same addedDatetime.
DistinctStamps(store) ==
    \A j, k \in DOMAIN store :
        j # k => store[j].addedDatetime # store[k].addedDatetime
\* Entry k is older than every other entry of the store.
IsOldest(store, k) ==
    /\ k \in DOMAIN store
    /\ \A j \in (DOMAIN store) \ {k} : store[k].addedDatetime < store[j].addedDatetime

----------------------------------------------------------------------------
(* Claims *)

\* C1: starting from a persisted store of at most MAX_CACHED_IMAGES entries
\* (empty and missing included), the persisted store holds at most
\* MAX_CACHED_IMAGES entries whenever a putInfo, putDimensions or putFileInfo
\* call has returned.
C1_CapacityKept ==
    (/\ Called
     /\ Last.op \in WriteOps
     /\ Size(Before(calls[1])) <= MAX_CACHED_IMAGES)
        => /\ ls.kind = "json"
           /\ Size(ls.store) <= MAX_CACHED_IMAGES
\* A write of a new key into a full store has returned, leaving a full store.
C1_Witness ==
    /\ Called
    /\ Last.op \in WriteOps
    /\ Size(Before(calls[1])) <= MAX_CACHED_IMAGES
    /\ Size(Before(Last)) = MAX_CACHED_IMAGES
    /\ Last.key \notin DOMAIN Before(Last)
    /\ Size(ls.store) = MAX_CACHED_IMAGES

\* C2: putInfo of a key that is not in a store of n >= MAX_CACHED_IMAGES
\* entries with pairwise distinct addedDatetime leaves exactly the
\* MAX_CACHED_IMAGES - 1 prior entries of largest addedDatetime, unchanged,
\* plus the new entry; with n = MAX_CACHED_IMAGES the only entry evicted is
\* the one of smallest addedDatetime.
C2_EvictsOldest ==
    (/\ Called
     /\ Last.op = "putInfo"
     /\ Last.key \notin DOMAIN Before(Last)
     /\ Size(Before(Last)) >= MAX_CACHED_IMAGES
     /\ DistinctStamps(Before(Last)))
        => LET P == Before(Last)
               newest == {k \in DOMAIN P :
                            Cardinality({j \in DOMAIN P :
                                P[j].addedDatetime > P[k].addedDatetime})
                                < MAX_CACHED_IMAGES - 1}
           IN  /\ Cardinality(newest) = MAX_CACHED_IMAGES - 1
               /\ DOMAIN ls.store = newest \cup {Last.key}
               /\ \A k \in newest : ls.store[k] = P[k]
               /\ Size(P) = MAX_CACHED_IMAGES
                    => \E k \in DOMAIN P :
                        /\ IsOldest(P, k)
                        /\ (DOMAIN P) \ (DOMAIN ls.store) = {k}
\* putInfo has written a new key into a full store of distinct timestamps.
C2_Witness ==
    /\ Called
    /\ Last.op = "putInfo"
    /\ Last.key \notin DOMAIN Before(Last)
    /\ Size(Before(Last)) = MAX_CACHED_IMAGES
    /\ DistinctStamps(Before(Last))
    /\ Size(ls.store) = MAX_CACHED_IMAGES

\* C3: right after putInfo(key, e) returns, getInfo(key) returns an entry
\* whose payload fields are exactly those of e, whatever the store was.
C3_WriteSurvives ==
    (Called /\ Last.op = "putInfo")
        => LET got == getInfo(Here, Last.key).ret IN
           /\ got # Undefined
           /\ Delete(got.val, {"addedDatetime"}) = Last.arg.val
\* putInfo has rewritten the key that was the oldest entry of a full store.
C3_Witness ==
    /\ Called
    /\ Last.op = "putInfo"
    /\ Size(Before(Last)) = MAX_CACHED_IMAGES
    /\ IsOldest(Before(Last), Last.key)
    /\ Last.key \in DOMAIN ls.store

\* C4: putDimensions(k, d) directly followed by putFileInfo(k, f), or the
\* two in the opposite order, leaves an entry for k with dimensions = d and
\* fileInfo = f.
C4_BothFieldsKept ==
    \A i \in 1..(Len(calls) - 1) :
        (/\ {calls[i].op, calls[i + 1].op} = {"putDimensions", "putFileInfo"}
         /\ calls[i].key = calls[i + 1].key)
            => LET k == calls[i].key
                   store == After(i + 1).ls.store
               IN  /\ k \in DOMAIN store
                   /\ PayloadFields \subseteq DOMAIN store[k]
                   /\ store[k].dimensions = NewDimensions
                   /\ store[k].fileInfo = NewFileInfo
\* Both writers have run on the key that was the oldest of a full store.
C4_Witness ==
    /\ Len(calls) >= 2
    /\ calls[1].op = "putDimensions"
    /\ calls[2].op = "putFileInfo"
    /\ calls[1].key = calls[2].key
    /\ Size(Before(calls[1])) = MAX_CACHED_IMAGES
    /\ IsOldest(Before(calls[1]), calls[1].key)

\* C5 as claimed: putInfo merges: a payload field of the stored entry that
\* the entry passed to putInfo does not set is still there, with its old
\* value, after putInfo returns.
C5_PutInfoMerges ==
    (/\ Called
     /\ Last.op = "putInfo"
     /\ Last.key \in DOMAIN Before(Last))
        => \A f \in PayloadFields :
            (f \in DOMAIN Before(Last)[Last.key] /\ f \notin DOMAIN Last.arg.val)
                => /\ Last.key \in DOMAIN ls.store
                   /\ f \in DOMAIN ls.store[Last.key]
                   /\ ls.store[Last.key][f] = Before(Last)[Last.key][f]
\* C5 as amended: putInfo replaces the entry of its key: a payload field that
\* the entry passed to putInfo does not set is absent afterwards.  The other
\* field is kept by putDimensions and putFileInfo only, which hand putInfo
\* the previous entry with their one field overwritten.
C5_PutInfoReplaces ==
    (Called /\ Last.key \in DOMAIN Before(Last))
        => LET old == Before(Last)[Last.key]
               new == ls.store[Last.key]
           IN  /\ Last.op = "putInfo"
                    => \A f \in PayloadFields :
                        f \notin DOMAIN Last.arg.val => f \notin DOMAIN new
               /\ (Last.op = "putDimensions" /\ "fileInfo" \in DOMAIN old)
                    => "fileInfo" \in DOMAIN new /\ new.fileInfo = old.fileInfo
               /\ (Last.op = "putFileInfo" /\ "dimensions" \in DOMAIN old)
                    => "dimensions" \in DOMAIN new /\ new.dimensions = old.dimensions
\* putInfo has been given only dimensions for a key stored with a fileInfo.
C5_Witness ==
    /\ Called
    /\ Last.op = "putInfo"
    /\ Last.key \in DOMAIN Before(Last)
    /\ "fileInfo" \in DOMAIN Before(Last)[Last.key]
    /\ DOMAIN Last.arg.val = {"dimensions"}
    /\ "fileInfo" \notin DOMAIN ls.store[Last.key]

\* C6: after a putInfo, putDimensions or putFileInfo on key k made at clock
\* value t, the stored addedDatetime of k is t, and every other entry left
\* in the store was there before with the same addedDatetime.
C6_StampIsWriteTime ==
    (Called /\ Last.op \in WriteOps)
        => /\ Last.key \in DOMAIN ls.store
           /\ ls.store[Last.key].addedDatetime = Last.t
           /\ \A k \in (DOMAIN ls.store) \ {Last.key} :
                /\ k \in DOMAIN Before(Last)
                /\ ls.store[k].addedDatetime = Before(Last)[k].addedDatetime
\* putDimensions has rewritten an entry that carried an older timestamp.
C6_Witness ==
    /\ Called
    /\ Last.op = "putDimensions"
    /\ Last.key \in DOMAIN Before(Last)
    /\ Before(Last)[Last.key].addedDatetime < Last.t
    /\ Size(ls.store) > 1

\* Call i is a getStore, and an earlier getStore found the item malformed
\* with nothing but reads in between.
AfterReset(i) ==
    \E j \in 1..(i - 1) :
        /\ calls[j].op = "getStore"
        /\ calls[j].pre.ls.kind = "malformed"
        /\ \A m \in (j + 1)..(i - 1) : calls[m].op \in ReadOps

\* C7: a getStore that finds the persisted value malformed returns the empty
\* store, writes the empty store once and warns once; a later getStore with
\* nothing but reads in between returns the empty store, writes nothing and
\* warns of nothing.
C7_MalformedResetOnce ==
    \A i \in 1..Len(calls) :
        calls[i].op = "getStore"
            => LET pre == calls[i].pre
                   post == After(i)
               IN  /\ pre.ls.kind = "malformed"
                        => /\ calls[i].ret = Some(EmptyObject)
                           /\ post.ls = JSONstringify(EmptyObject)
                           /\ post.writes = pre.writes + 1
                           /\ post.warnings = pre.warnings + 1
                   /\ AfterReset(i)
                        => /\ calls[i].ret = Some(EmptyObject)
                           /\ post.ls = pre.ls
                           /\ post.writes = pre.writes
                           /\ post.warnings = pre.warnings
\* getStore has run twice, the first time on a malformed item.
C7_Witness ==
    /\ Len(calls) >= 2
    /\ calls[1].op = "getStore"
    /\ calls[1].pre.ls.kind = "malformed"
    /\ calls[2].op = "getStore"
    /\ warnings = 1
    /\ writes = 1

\* C8: whatever the persisted item is (missing, malformed or a store),
\* getInfo, getDimensions and getFileInfo raise no error; they return the
\* stored value when the key is in a well-formed store and undefined
\* otherwise, and a missing item is read like an empty store: undefined,
\* with no reset and no warning.
C8_ReadsNeverFail ==
    (Called /\ Last.op \in {"getInfo", "getDimensions", "getFileInfo"})
        => LET item == Last.pre.ls
               k == Last.key
               present == item.kind = "json" /\ k \in DOMAIN item.store
               has(f) == present /\ f \in DOMAIN item.store[k]
           IN  /\ Last.ret # TypeError
               /\ Last.op = "getInfo"
                    => Last.ret = IF present THEN Some(item.store[k]) ELSE Undefined
               /\ Last.op = "getDimensions"
                    => Last.ret = IF has("dimensions")
                                  THEN Some(item.store[k].dimensions) ELSE Undefined
               /\ Last.op = "getFileInfo"
                    => Last.ret = IF has("fileInfo")
                                  THEN Some(item.store[k].fileInfo) ELSE Undefined
               /\ item.kind = "missing"
                    => /\ Last.ret = Undefined
                       /\ Here = Last.pre
\* getDimensions has answered undefined on a malformed item, and on a store
\* without the key.
C8_Witness ==
    /\ Len(calls) >= 2
    /\ calls[1].op = "getDimensions"
    /\ calls[1].pre.ls.kind = "malformed"
    /\ calls[1].ret = Undefined
    /\ calls[2].op = "getFileInfo"
    /\ calls[2].ret = Undefined

\* A HTTP response error with a status in 400..499 other than 429.
ClientError(err) ==
    /\ err.type = "HTTPResponseError"
    /\ err.statusCode >= 400
    /\ err.statusCode < 500
    /\ err.statusCode # 429

Terminal == {"Success", "FatalError", "RetriesExhausted"}

\* C9: an attempt of loadFileInfo that fails with a HTTP response error of
\* status 400..499 other than 429 is the last attempt made (with it as first
\* attempt there is no retry), and loadFileInfo is rejected with that error.
C9_ClientErrorIsFatal ==
    \A i \in 1..Len(failures) :
        ClientError(failures[i])
            => /\ i = Len(failures)
               /\ attempts = i
               /\ fstate = "FatalError"
               /\ raised = Some(failures[i])
               /\ result = Undefined
\* A first attempt answered 404 has ended the call; so has a 400 after a
\* retried failure.
C9_Witness ==
    /\ fstate = "FatalError"
    /\ \/ attempts = 1 /\ failures = <<HTTPResponseError(404)>>
       \/ attempts = 2 /\ failures[2] = HTTPResponseError(400)

\* C10: the retrying is stopped by a failed attempt only when the failure
\* is a HTTP response error of status 400..499 other than 429; after any
\* other failure another attempt is due or made as long as fewer than
\* Retries + 1 attempts were made.
C10_OnlyClientErrorStops ==
    /\ fstate = "FatalError" => ClientError(failures[Len(failures)])
    /\ fstate = "RetriesExhausted" => attempts = Retries + 1
    /\ \A i \in 1..Len(failures) :
        (~ClientError(failures[i]) /\ i < Retries + 1)
            => \/ attempts > i
               \/ attempts = i /\ fstate = "RetryableError"
\* A 429, a network error and a 503 were each followed by another attempt.
C10_Witness ==
    /\ attempts = 4
    /\ failures = <<HTTPResponseError(429), NetworkError, HTTPResponseError(503)>>

\* C11: no loadFileInfo call makes more than 6 requests (1 + 5 retries);
\* when 6 attempts have failed with a failure that is retried (so every
\* attempt did), exactly 6 requests were made and the call has failed.
C11_AtMostSixAttempts ==
    /\ attempts <= 6
    /\ Len(failures) <= attempts
    /\ (Len(failures) = 6 /\ ~ClientError(failures[6]))
        => /\ attempts = 6
           /\ \A i \in 1..6 : ~ClientError(failures[i])
           /\ fstate = "RetriesExhausted"
           /\ raised # Undefined
           /\ result = Undefined
\* Six attempts were answered 500 and the call has failed.
C11_Witness ==
    /\ fstate = "RetriesExhausted"
    /\ attempts = 6
    /\ failures = [i \in 1..6 |-> HTTPResponseError(500)]

\* C12: if every request made ends, a loadFileInfo call that was started
\* ends in Success, FatalError or RetriesExhausted; from then on no request
\* is made and nothing of the call changes.
C12_CallTerminates ==
    /\ [](fstate # "Idle" => <>(fstate \in Terminal))
    /\ [][(fstate \in Terminal) => (fetchVars' = fetchVars)]_vars
\* A call has used up its retries.
C12_Witness ==
    /\ fstate = "RetriesExhausted"
    /\ attempts = Retries + 1
    /\ Len(trace) = 2 * attempts

\* C13: every request after the first comes right after exactly one
\* warning, which comes right after the request that failed; a call that
\* succeeds after k failed attempts has made k retries and logged k warnings.
C13_OneWarningPerRetry ==
    /\ \A i \in 2..Len(trace) :
        trace[i] = "request"
            => /\ i >= 3
               /\ trace[i - 1] = "warn"
               /\ trace[i - 2] = "request"
    /\ \A i \in 1..Len(trace) :
        trace[i] = "warn" => (i > 1 /\ trace[i - 1] = "request")
    /\ fstate = "Success"
        => /\ attempts = Len(failures) + 1
           /\ warnings = Len(failures)
           /\ Len(trace) = 2 * Len(failures) + 1
\* Three answers 429, then a response: 3 retries and 3 warnings.
C13_Witness ==
    /\ fstate = "Success"
    /\ failures = [i \in 1..3 |-> HTTPResponseError(429)]
    /\ attempts = 4
    /\ warnings = 3

Failed == {"FatalError", "RetriesExhausted"}
\* How many of the failed attempts failed with error e.
Occurrences(e) == Cardinality({i \in 1..Len(failures) : failures[i] = e})

----------------------------------------------------------------------------
(* Response headers read header by header, as C17 speaks of them *)

\* First position from i on where sub occurs in s, 0 when it does not.
RECURSIVE IndexOf(_, _, _)
IndexOf(s, sub, i) ==
    IF i + Len(sub) - 1 > Len(s) THEN 0
    ELSE IF SubSeq(s, i, i + Len(sub) - 1) = sub THEN i
    ELSE IndexOf(s, sub, i + 1)

RECURSIVE LowerCased(_)
LowerCased(s) ==
    IF s = "" THEN "" ELSE ToLowerChar(CharAt(s, 1)) \o LowerCased(SubSeq(s, 2, Len(s)))
RECURSIVE UpperCased(_)
UpperCased(s) ==
    IF s = "" THEN "" ELSE ToUpperChar(CharAt(s, 1)) \o UpperCased(SubSeq(s, 2, Len(s)))

\* The header lines of a header text.
RECURSIVE HeaderLines(_)
HeaderLines(s) ==
    IF s = "" THEN <<>>
    ELSE LET e == IndexOf(s, "\r\n", 1) IN
         IF e = 0 THEN <<s>>
         ELSE <<SubSeq(s, 1, e - 1)>> \o HeaderLines(SubSeq(s, e + 2, Len(s)))

\* Name and value of a header line "name: value".
HeaderName(line) == LowerCased(SubSeq(line, 1, IndexOf(line, ": ", 1) - 1))
HeaderValue(line) == SubSeq(line, IndexOf(line, ": ", 1) + 2, Len(line))

\* The value of the header of that name, undefined when there is none.
Header(s, name) ==
    LET lines == HeaderLines(s)
        hits == {i \in 1..Len(lines) :
                    IndexOf(lines[i], ": ", 1) > 0 /\ HeaderName(lines[i]) = name}
    IN  IF hits = {} THEN Undefined
        ELSE Some(HeaderValue(lines[CHOOSE h \in hits : \A g \in hits : h <= g]))

\* The subtype of a media type "type/subtype" or "type/subtype; parameter".
Subtype(mediaType) ==
    LET slash == IndexOf(mediaType, "/", 1)
        semi == IndexOf(mediaType, ";", 1)
    IN  SubSeq(mediaType, slash + 1, IF semi = 0 THEN Len(mediaType) ELSE semi - 1)

\* The FileInfo C17 describes for a header text.
DeclaredFileInfo(s) ==
    LET len == Header(s, "content-length")
        type == Header(s, "content-type")
    IN  [fileType |-> IF type = Undefined THEN Undefined
                      ELSE Some(UpperCased(Subtype(type.val))),
         size |-> IF len = Undefined THEN Undefined ELSE Some(parseInt(len.val))]

\* Header texts in which content-length and content-type are matched at
\* their own headers only and the subtype is made of word characters.
PlainHeaders(s) ==
    /\ \A i \in 1..Len(HeaderLines(s)) :
        HeaderName(HeaderLines(s)[i]) \in {"content-length", "content-type"}
    /\ Header(s, "content-type") # Undefined
        => LET sub == Subtype(Header(s, "content-type").val) IN
           \A i \in 1..Len(sub) : IsWord(CharAt(sub, i))

\* C17 as claimed: on a successful response loadFileInfo returns the decimal
\* value of the content-length header as size and the upper-cased subtype of
\* the content-type header as fileType, header names compared without
\* regard to case, and an absent size or fileType for a missing header.
C17_HeadersAsDeclared ==
    fstate = "Success"
        => result = Some(DeclaredFileInfo(resp.val.responseHeaders))
\* C17 as amended: that holds for header texts in which "content-length: "
\* and "content-type: " occur only at the start of those headers and the
\* subtype is made of letters, digits and underscores (content-length: 12345
\* and content-type: image/png give 12345 and PNG).  In general size is the
\* value of the digits after the first "content-length: " anywhere in the
\* header text, be it the end of a longer header name, and fileType is the
\* upper-cased run of letters, digits and underscores after the first
\* "content-type: <word>/": SVG for image/svg+xml.  A missing header gives
\* an absent field and the call still succeeds.
C17_HeadersAsMatched ==
    fstate = "Success"
        => LET h == resp.val.responseHeaders IN
           /\ result # Undefined
           /\ raised = Undefined
           /\ PlainHeaders(h) => result = Some(DeclaredFileInfo(h))
           /\ h = "content-length: 12345\r\ncontent-type: image/png\r\n"
                => result = Some([fileType |-> Some("PNG"), size |-> Some(12345)])
           /\ h = "content-type: image/svg+xml\r\ncontent-length: 300\r\n"
                => result = Some([fileType |-> Some("SVG"), size |-> Some(300)])
           /\ h = "x-goog-stored-content-length: 7\r\ncontent-length: 12345\r\n"
                => result = Some([fileType |-> Undefined, size |-> Some(7)])
           /\ h = "" => result = Some([fileType |-> Undefined, size |-> Undefined])
\* A response with headers in capitals gave size and type, after one with
\* no content-length could have: here the one with Content-Length: 7.
C17_Witness ==
    /\ fstate = "Success"
    /\ resp.val.responseHeaders = "Content-Length: 7\r\nContent-Type: image/jpeg\r\n"
    /\ result = Some([fileType |-> Some("JPEG"), size |-> Some(7)])

C20_ReadsLeaveStore ==
    /\ \A i \in 1..Len(calls) :
        calls[i].op \in ReadOps
            => IF calls[i].pre.ls.kind = "malformed"
               THEN After(i) = Ctx(JSONstringify(EmptyObject),
                                   calls[i].pre.warnings + 1, calls[i].pre.writes + 1)
               ELSE After(i) = calls[i].pre
    /\ (/\ Len(calls) = 2
        /\ calls[1].op \in ReadOps \ {"getStore"}
        /\ calls[2].op = "putInfo"
        /\ Size(Before(calls[2])) = MAX_CACHED_IMAGES
        /\ calls[2].key \notin DOMAIN Before(calls[2])
        /\ IsOldest(Before(calls[1]), calls[1].key))
            => /\ calls[1].key \notin DOMAIN ls.store
               /\ Size(ls.store) = MAX_CACHED_IMAGES
\* The oldest entry of a full store was read and found, and the putInfo of a
\* new key that followed evicted it.
C20_Witness ==
    /\ Len(calls) = 2
    /\ calls[1].op = "getDimensions"
    /\ calls[1].ret # Undefined
    /\ IsOldest(Before(calls[1]), calls[1].key)
    /\ Size(Before(calls[1])) = MAX_CACHED_IMAGES
    /\ calls[2].op = "putInfo"
    /\ calls[2].key \notin DOMAIN Before(calls[2])
    /\ calls[1].key \notin DOMAIN ls.store

----------------------------------------------------------------------------
(* Claims about several execution contexts *)

Returned(i) == tabs[i].pc = "returned"
\* Context i has returned and no setItem call was made after its own.
LastWriter(i) == Returned(i) /\ tabs[i].wrote = writes
FieldName(op) == IF op = "putDimensions" THEN "dimensions" ELSE "fileInfo"
FieldValue(op) == IF op = "putDimensions" THEN NewDimensions ELSE NewFileInfo

\* C15: when two contexts have written different keys, the persisted store
\* is the one of the last writer: it holds the last writer's key, and the
\* key of the other context is missing whenever that context wrote after
\* the last writer had read the store and the key was not in the store read
\* (the interleaving read, read, write, write loses a key although nothing
\* had to be evicted), while it is kept when the last writer read what the
\* other wrote and had nothing to evict.
C15_LastWriterWins ==
    \A i, j \in Tabs :
        (/\ i # j
         /\ LastWriter(i)
         /\ Returned(j)
         /\ tabs[i].key # tabs[j].key)
            => /\ tabs[i].key \in DOMAIN ls.store
               /\ (/\ tabs[j].wrote > tabs[i].snapAt
                   /\ tabs[j].key \notin DOMAIN tabs[i].prevStore)
                    => tabs[j].key \notin DOMAIN ls.store
               /\ (/\ tabs[j].wrote = tabs[i].snapAt
                   /\ Size(tabs[i].prevStore) < MAX_CACHED_IMAGES)
                    => tabs[j].key \in DOMAIN ls.store
\* Two putInfo calls for different keys on a store far below capacity have
\* both returned and the key of the first writer is missing.
C15_Witness ==
    \E i, j \in Tabs :
        /\ i # j
        /\ LastWriter(i)
        /\ Returned(j)
        /\ tabs[i].op = "putInfo"
        /\ tabs[j].op = "putInfo"
        /\ tabs[i].key # tabs[j].key
        /\ Size(tabs[i].prevStore) < MAX_CACHED_IMAGES - 1
        /\ Size(tabs[j].prevStore) < MAX_CACHED_IMAGES - 1
        /\ tabs[i].key \in DOMAIN ls.store
        /\ tabs[j].key \notin DOMAIN ls.store

\* C16: with the storage reads and writes of the contexts interleaved in
\* any order, the persisted item is always a store of at most
\* MAX_CACHED_IMAGES entries, as is every store a context has read.
C16_NeverOverCapacity ==
    /\ ls.kind = "json"
    /\ Size(ls.store) <= MAX_CACHED_IMAGES
    /\ \A i \in Tabs : Size(tabs[i].prevStore) <= MAX_CACHED_IMAGES
\* Two contexts read the full store before either wrote, both have written,
\* the second from its stale copy, and the store is full.
C16_Witness ==
    \E i, j \in Tabs :
        /\ i # j
        /\ LastWriter(i)
        /\ Returned(j)
        /\ tabs[i].snapAt < tabs[j].wrote
        /\ Size(tabs[i].prevStore) = MAX_CACHED_IMAGES
        /\ Size(tabs[j].prevStore) = MAX_CACHED_IMAGES
        /\ tabs[i].key # tabs[j].key
        /\ Size(ls.store) = MAX_CACHED_IMAGES

\* C19 as claimed: when one context ran putDimensions(k, d) and another
\* putFileInfo(k, f) and both have returned, the entry of k holds both
\* dimensions = d and fileInfo = f.
C19_BothFieldsAcrossContexts ==
    \A i, j \in Tabs :
        (/\ Returned(i)
         /\ Returned(j)
         /\ \A m \in Tabs \ {i, j} : tabs[m].wrote = 0
         /\ tabs[i].key = tabs[j].key
         /\ tabs[i].op = "putDimensions"
         /\ tabs[j].op = "putFileInfo")
            => /\ tabs[i].key \in DOMAIN ls.store
               /\ Lookup(ls.store[tabs[i].key], "dimensions") = Some(NewDimensions)
               /\ Lookup(ls.store[tabs[i].key], "fileInfo") = Some(NewFileInfo)
\* C19 as amended: the entry holds the field of the call that wrote last.
\* It holds the field of the other call as well when the last writer read
\* the previous entry right after the other call had written it, and it has
\* lost the value the other call wrote when that write fell between the
\* last writer's read of the previous entry and its write.
C19_FieldKeptIfReadAfterWrite ==
    \A i, j \in Tabs :
        (/\ i # j
         /\ LastWriter(i)
         /\ Returned(j)
         /\ tabs[i].key = tabs[j].key
         /\ {tabs[i].op, tabs[j].op} = {"putDimensions", "putFileInfo"})
            => LET k == tabs[i].key IN
               /\ k \in DOMAIN ls.store
               /\ Lookup(ls.store[k], FieldName(tabs[i].op)) = Some(FieldValue(tabs[i].op))
               /\ tabs[j].wrote = tabs[i].readAt
                    => Lookup(ls.store[k], FieldName(tabs[j].op)) = Some(FieldValue(tabs[j].op))
               /\ (/\ tabs[j].wrote > tabs[i].readAt
                   /\ \A m \in Tabs \ {i, j} : tabs[m].wrote = 0 \/ tabs[m].key # k)
                    => Lookup(ls.store[k], FieldName(tabs[j].op)) # Some(FieldValue(tabs[j].op))
\* putFileInfo read the previous entry, putDimensions of the other context
\* read and wrote it, then putFileInfo wrote: the dimensions are not d.
C19_Witness ==
    \E i, j \in Tabs :
        /\ i # j
        /\ LastWriter(i)
        /\ Returned(j)
        /\ tabs[i].key = tabs[j].key
        /\ tabs[i].op = "putFileInfo"
        /\ tabs[j].op = "putDimensions"
        /\ tabs[i].readAt < tabs[j].wrote
        /\ Lookup(ls.store[tabs[i].key], "fileInfo") = Some(NewFileInfo)
        /\ Lookup(ls.store[tabs[i].key], "dimensions") # Some(NewDimensions)

====
